---- MODULE Spec2Model ----
(***************************************************************************)
(* Model of the CSS selector builder of src/src/05-objects-tasks.js:       *)
(* the CssSelector constructor function with its fragment methods,         *)
(* combine and stringify, and the cssSelectorBuilder facade.               *)
(*                                                                         *)
(* A JavaScript string is modelled as a sequence of characters, each       *)
(* character a one-atom TLA+ string; the words of the documented example   *)
(* are atoms without whitespace.  The only whitespace atom is " ".         *)
(***************************************************************************)
EXTENDS Integers, Sequences, FiniteSets, TLC

\* ------------------------------------------------------------------ bounds
\* fragment calls made on the one builder of Spec
MaxCalls == 3
\* fragment calls and combine calls made on the builders of SpecCombine
MaxPairCalls == 2
MaxCombines == 2

\* the builder objects of a run, named by their identity
Builders == {1, 2}

\* argument values handed to the fragment methods: the empty string, a plain
\* name, a name with trailing whitespace, a name with leading whitespace
Values == { <<>>, <<"a">>, <<"b", " ">>, <<" ", "c">> }

\* the argument values used where two builders are combined: a plain name
\* for element, id and pseudoElement, and a name with trailing whitespace for
\* class, attr and pseudoClass
PairNames == { <<"a">> }
PairValues == { <<"b", " ">> }

\* combinator symbols handed to combine (any string is passed through)
Combinators == { <<>>, <<"+">>, <<" ">> }

\* ------------------------------------------------------------ JS strings
IsWhitespace(c) == c = " "

RECURSIVE trimStart(_)
trimStart(s) ==
  IF s = <<>> THEN <<>>
  ELSE IF IsWhitespace(Head(s)) THEN trimStart(Tail(s)) ELSE s

RECURSIVE trimEnd(_)
trimEnd(s) ==
  IF s = <<>> THEN <<>>
  ELSE IF IsWhitespace(s[Len(s)]) THEN trimEnd(SubSeq(s, 1, Len(s) - 1)) ELSE s

\* String.prototype.trim
trim(s) == trimEnd(trimStart(s))

\* Array.prototype.indexOf on the order array (indices 0..5), -1 when absent
indexOf(arr, x) ==
  IF \E k \in DOMAIN arr : arr[k] = x
  THEN CHOOSE k \in DOMAIN arr : arr[k] = x /\ \A m \in DOMAIN arr : arr[m] = x => k <= m
  ELSE -1

\* ------------------------------------------------------------ error values
NoError == "none"
DuplicateMessage ==
  "Element, id and pseudo-element should not occur more then one time inside the selector"
OrderMessage ==
  "Selector parts should be arranged in the following order: element, id, class, attribute, pseudo-class, pseudo-element"

\* ------------------------------------------------------------ CssSelector
\* the fields set by the constructor function
CssSelector ==
  [ elementValue       |-> <<>>,
    idValue            |-> <<>>,
    classes            |-> <<>>,
    attrs              |-> <<>>,
    pseudoClasses      |-> <<>>,
    pseudoElementValue |-> <<>>,
    combinator         |-> <<>>,
    supSelector        |-> <<>>,
    order              |-> [k \in 0..5 |-> 0] ]

\* Every method is a state transformer: it maps the receiver's fields to the
\* fields after the call, the error thrown (NoError when it returns) and,
\* for stringify, the string returned.
Returned(b) == [b |-> b, err |-> NoError, out |-> <<>>]
Thrown(b, msg) == [b |-> b, err |-> msg, out |-> <<>>]

\* assertEmpty: the error it throws, NoError when it returns
assertEmpty(value) == IF value # <<>> THEN DuplicateMessage ELSE NoError

\* checkOrder recording the rank before it compares
checkOrder_recordFirst(b, value) ==
  LET first == indexOf(b.order, 1) IN
  IF first # -1 /\ first > value
  THEN Thrown([b EXCEPT !.order[value] = 1], OrderMessage)
  ELSE Returned([b EXCEPT !.order[value] = 1])

\* checkOrder comparing with the highest rank recorded (lastIndexOf)
checkOrder_highest(b, value) ==
  LET S == {k \in DOMAIN b.order : b.order[k] = 1}
      highest == IF S = {} THEN -1 ELSE CHOOSE k \in S : \A m \in S : m <= k
  IN IF highest # -1 /\ highest > value
     THEN Thrown(b, OrderMessage)
     ELSE Returned([b EXCEPT !.order[value] = 1])

\* checkOrder comparing with >= : a kind already recorded is rejected too
checkOrder_strict(b, value) ==
  LET first == indexOf(b.order, 1) IN
  IF first # -1 /\ first >= value
  THEN Thrown(b, OrderMessage)
  ELSE Returned([b EXCEPT !.order[value] = 1])

checkOrder(b, value) ==
  LET first == indexOf(b.order, 1) IN
  IF first # -1 /\ first > value
  THEN Thrown(b, OrderMessage)
  ELSE Returned([b EXCEPT !.order[value] = 1])

element(b, value) ==
  IF assertEmpty(b.elementValue) # NoError THEN Thrown(b, DuplicateMessage)
  ELSE LET c == checkOrder(b, 0) IN
       IF c.err # NoError THEN c
       ELSE Returned([c.b EXCEPT !.elementValue = value])

id(b, value) ==
  IF assertEmpty(b.idValue) # NoError THEN Thrown(b, DuplicateMessage)
  ELSE LET c == checkOrder(b, 1) IN
       IF c.err # NoError THEN c
       ELSE Returned([c.b EXCEPT !.idValue = <<"#">> \o value])

\* class putting the new value in front of the ones already there
class_prepend(b, value) ==
  LET c == checkOrder(b, 2) IN
  IF c.err # NoError THEN c
  ELSE Returned([c.b EXCEPT !.classes = <<".">> \o value \o c.b.classes])

class(b, value) ==
  LET c == checkOrder(b, 2) IN
  IF c.err # NoError THEN c
  ELSE Returned([c.b EXCEPT !.classes = c.b.classes \o <<".">> \o value])

attr(b, value) ==
  LET c == checkOrder(b, 3) IN
  IF c.err # NoError THEN c
  ELSE Returned([c.b EXCEPT !.attrs = c.b.attrs \o <<"[">> \o value \o <<"]">>])

pseudoClass(b, value) ==
  LET c == checkOrder(b, 4) IN
  IF c.err # NoError THEN c
  ELSE Returned([c.b EXCEPT !.pseudoClasses = c.b.pseudoClasses \o <<":">> \o value])

\* pseudoElement throwing the order error for a repeated pseudo-element
pseudoElement_orderError(b, value) ==
  LET c == checkOrder(b, 5) IN
  IF c.err # NoError THEN c
  ELSE IF assertEmpty(c.b.pseudoElementValue) # NoError
       THEN Thrown(c.b, OrderMessage)
       ELSE Returned([c.b EXCEPT
              !.pseudoElementValue = c.b.pseudoElementValue \o <<":", ":">> \o value])

\* checkOrder runs first here, so order[5] is already written when
\* assertEmpty throws
pseudoElement(b, value) ==
  LET c == checkOrder(b, 5) IN
  IF c.err # NoError THEN c
  ELSE IF assertEmpty(c.b.pseudoElementValue) # NoError
       THEN Thrown(c.b, DuplicateMessage)
       ELSE Returned([c.b EXCEPT
              !.pseudoElementValue = c.b.pseudoElementValue \o <<":", ":">> \o value])

\* stringify without the space that ends the receiver's own fragments
stringify_noSpace(b) ==
  LET result == b.elementValue \o b.idValue \o b.classes \o b.attrs
                  \o b.pseudoClasses \o b.pseudoElementValue
      full == IF b.combinator # <<>> /\ b.supSelector # <<>>
              THEN result \o (b.combinator \o <<" ">>) \o b.supSelector
              ELSE result
  IN [b |-> b, err |-> NoError, out |-> trim(full)]

\* stringify without the space after the combinator
stringify_bareCombinator(b) ==
  LET result == b.elementValue \o b.idValue \o b.classes \o b.attrs
                  \o b.pseudoClasses \o b.pseudoElementValue \o <<" ">>
      full == IF b.combinator # <<>> /\ b.supSelector # <<>>
              THEN result \o b.combinator \o b.supSelector
              ELSE result
  IN [b |-> b, err |-> NoError, out |-> trim(full)]

\* stringify keeping the space it appends in the last field it reads
stringify_storing(b) ==
  LET result == b.elementValue \o b.idValue \o b.classes \o b.attrs
                  \o b.pseudoClasses \o b.pseudoElementValue \o <<" ">>
      full == IF b.combinator # <<>> /\ b.supSelector # <<>>
              THEN result \o (b.combinator \o <<" ">>) \o b.supSelector
              ELSE result
  IN [b |-> [b EXCEPT !.pseudoElementValue = @ \o <<" ">>],
      err |-> NoError, out |-> trim(full)]

\* stringify with the attributes written before the classes
stringify_swapped(b) ==
  LET result == b.elementValue \o b.idValue \o b.attrs \o b.classes
                  \o b.pseudoClasses \o b.pseudoElementValue \o <<" ">>
      full == IF b.combinator # <<>> /\ b.supSelector # <<>>
              THEN result \o (b.combinator \o <<" ">>) \o b.supSelector
              ELSE result
  IN [b |-> b, err |-> NoError, out |-> trim(full)]

stringify(b) ==
  LET result == b.elementValue \o b.idValue \o b.classes \o b.attrs
                  \o b.pseudoClasses \o b.pseudoElementValue \o <<" ">>
      full == IF b.combinator # <<>> /\ b.supSelector # <<>>
              THEN result \o (b.combinator \o <<" ">>) \o b.supSelector
              ELSE result
  IN [b |-> b, err |-> NoError, out |-> trim(full)]

\* combine keeping a right-hand text it already holds in front of the new one
combine_appending(b, selector, comb) ==
  Returned([b EXCEPT !.supSelector = b.supSelector \o stringify(selector).out,
                     !.combinator = comb])

\* combine storing the combinator with its outer whitespace removed
combine_trimmed(b, selector, comb) ==
  Returned([b EXCEPT !.supSelector = stringify(selector).out,
                     !.combinator = trim(comb)])

\* this.combine(selector, combinator): selector is the other builder's fields
combine(b, selector, comb) ==
  Returned([b EXCEPT !.supSelector = stringify(selector).out,
                     !.combinator = comb])

\* ------------------------------------------------------ cssSelectorBuilder
\* the facade: each fragment function builds a new CssSelector and calls the
\* method of the same name on it
facade_element(value) == element(CssSelector, value)
facade_id(value) == id(CssSelector, value)
facade_class(value) == class(CssSelector, value)
facade_attr(value) == attr(CssSelector, value)
facade_pseudoClass(value) == pseudoClass(CssSelector, value)
facade_pseudoElement(value) == pseudoElement(CssSelector, value)

\* the facade's combine calling selector2.combine(selector1, combinator)
facade_combine_swapped(selector1, comb, selector2) == combine(selector2, selector1, comb)

\* cssSelectorBuilder.combine(selector1, combinator, selector2)
facade_combine(selector1, comb, selector2) == combine(selector1, selector2, comb)

\* the three-level example of the documentation comment
Example_td == pseudoClass(facade_element(<<"td">>).b, <<"nth-of-type(even)">>).b
Example_tr == pseudoClass(facade_element(<<"tr">>).b, <<"nth-of-type(even)">>).b
Example_rows == facade_combine(Example_tr, <<" ">>, Example_td).b
Example_table == id(facade_element(<<"table">>).b, <<"data">>).b
Example_tableRows == facade_combine(Example_table, <<"~">>, Example_rows).b
Example_div ==
  class(class(id(facade_element(<<"div">>).b, <<"main">>).b,
              <<"container">>).b, <<"draggable">>).b
Example == facade_combine(Example_div, <<"+">>, Example_tableRows).b

\* the string the documentation comment gives for it
Example_text ==
  <<"div", "#", "main", ".", "container", ".", "draggable", " ", "+", " ",
    "table", "#", "data", " ", "~", " ",
    "tr", ":", "nth-of-type(even)", " ", " ", " ", "td", ":", "nth-of-type(even)">>

\* ------------------------------------------------------------------ state
VARIABLES
  builders,      \* builders[i]: the fields of builder object i
  hist,          \* hist[i]: the fragment calls accepted on i, in call order
  combinedWith,  \* combinedWith[i]: right operand of i's last combine, 0 if none
  calls,         \* fragment calls made so far, rejected ones included
  combines,      \* combine calls made so far
  last           \* the last call: receiver, method, arguments and outcome

vars == <<builders, hist, combinedWith, calls, combines, last>>

Kinds == {"element", "id", "class", "attr", "pseudoClass", "pseudoElement"}

\* the rank checkOrder is called with by each fragment method
Rank(kind) ==
  CASE kind = "element" -> 0
    [] kind = "id" -> 1
    [] kind = "class" -> 2
    [] kind = "attr" -> 3
    [] kind = "pseudoClass" -> 4
    [] kind = "pseudoElement" -> 5

Call(op, facade, b, value, other, r, ret) ==
  [op |-> op, facade |-> facade, b |-> b, value |-> value, other |-> other,
   err |-> r.err, out |-> r.out, ret |-> ret]

\* the fields shared by all instances instead of set on this
SetThis_shared(bs, i, nb) == [k \in DOMAIN bs |-> nb]

\* the fields live on the instance (this.x = ... in the constructor): a call
\* on builder i writes builder i's fields and no other's
SetThis(bs, i, nb) == [bs EXCEPT ![i] = nb]

Init ==
  /\ builders = [i \in Builders |-> CssSelector]
  /\ hist = [i \in Builders |-> <<>>]
  /\ combinedWith = [i \in Builders |-> 0]
  /\ calls = 0
  /\ combines = 0
  /\ last = Call("new", FALSE, 0, <<>>, 0, Returned(CssSelector), 0)

\* a fragment call returning another object than the receiver
Fragment_other(i, kind, value, r) ==
  /\ calls' = calls + 1
  /\ builders' = SetThis(builders, i, r.b)
  /\ hist' = IF r.err = NoError
             THEN [hist EXCEPT ![i] = Append(@, [kind |-> kind, value |-> value])]
             ELSE hist
  /\ last' = Call(kind, FALSE, i, value, 0, r,
                  IF r.err = NoError THEN CHOOSE k \in Builders : k # i ELSE 0)
  /\ UNCHANGED <<combinedWith, combines>>

\* a fragment call that also refreshes the right-hand text of every builder
\* combined with the receiver, as if combine had kept a live reference
Fragment_live(i, kind, value, r) ==
  /\ calls' = calls + 1
  /\ builders' = [k \in Builders |->
                    IF k = i THEN r.b
                    ELSE IF combinedWith[k] = i
                         THEN [builders[k] EXCEPT !.supSelector = stringify(r.b).out]
                         ELSE builders[k]]
  /\ hist' = IF r.err = NoError
             THEN [hist EXCEPT ![i] = Append(@, [kind |-> kind, value |-> value])]
             ELSE hist
  /\ last' = Call(kind, FALSE, i, value, 0, r, IF r.err = NoError THEN i ELSE 0)
  /\ UNCHANGED <<combinedWith, combines>>

\* a fragment method called on builder i; r is what the method did.  A method
\* that throws still keeps the writes made before the throw; one that returns
\* returns this.
Fragment(i, kind, value, r) ==
  /\ calls' = calls + 1
  /\ builders' = SetThis(builders, i, r.b)
  /\ hist' = IF r.err = NoError
             THEN [hist EXCEPT ![i] = Append(@, [kind |-> kind, value |-> value])]
             ELSE hist
  /\ last' = Call(kind, FALSE, i, value, 0, r, IF r.err = NoError THEN i ELSE 0)
  /\ UNCHANGED <<combinedWith, combines>>

Element(i, value) == Fragment(i, "element", value, element(builders[i], value))
Id(i, value) == Fragment(i, "id", value, id(builders[i], value))
Class(i, value) == Fragment(i, "class", value, class(builders[i], value))
Attr(i, value) == Fragment(i, "attr", value, attr(builders[i], value))
PseudoClass(i, value) == Fragment(i, "pseudoClass", value, pseudoClass(builders[i], value))
PseudoElement(i, value) ==
  Fragment(i, "pseudoElement", value, pseudoElement(builders[i], value))

\* a facade fragment function: the object it returns is a new one, which
\* takes the place of a builder nothing was called on yet
Untouched(i) == hist[i] = <<>> /\ combinedWith[i] = 0 /\ builders[i] = CssSelector

FacadeFragment(i, kind, value, r) ==
  /\ Untouched(i)
  /\ calls' = calls + 1
  /\ builders' = SetThis(builders, i, r.b)
  /\ hist' = IF r.err = NoError
             THEN [hist EXCEPT ![i] = <<[kind |-> kind, value |-> value]>>]
             ELSE hist
  /\ last' = Call(kind, TRUE, i, value, 0, r, IF r.err = NoError THEN i ELSE 0)
  /\ UNCHANGED <<combinedWith, combines>>

FacadeElement(i, value) == FacadeFragment(i, "element", value, facade_element(value))
FacadeId(i, value) == FacadeFragment(i, "id", value, facade_id(value))
FacadeClass(i, value) == FacadeFragment(i, "class", value, facade_class(value))
FacadeAttr(i, value) == FacadeFragment(i, "attr", value, facade_attr(value))
FacadePseudoClass(i, value) ==
  FacadeFragment(i, "pseudoClass", value, facade_pseudoClass(value))
FacadePseudoElement(i, value) ==
  FacadeFragment(i, "pseudoElement", value, facade_pseudoElement(value))

\* i.combine(j, comb) and cssSelectorBuilder.combine(i, comb, j)
Combined(i, j, comb, facade, r) ==
  /\ combines' = combines + 1
  /\ builders' = SetThis(builders, i, r.b)
  /\ combinedWith' = [combinedWith EXCEPT ![i] = j]
  /\ last' = Call("combine", facade, i, comb, j, r, i)
  /\ UNCHANGED <<hist, calls>>

Combine(i, j, comb) ==
  Combined(i, j, comb, FALSE, combine(builders[i], builders[j], comb))

FacadeCombine(i, comb, j) ==
  Combined(i, j, comb, TRUE, facade_combine(builders[i], comb, builders[j]))

\* i.stringify()
Stringify(i) ==
  LET r == stringify(builders[i]) IN
  /\ builders' = SetThis(builders, i, r.b)
  /\ last' = Call("stringify", FALSE, i, <<>>, 0, r, 0)
  /\ UNCHANGED <<hist, combinedWith, calls, combines>>

\* one builder, every fragment method and value
Next ==
  \/ calls < MaxCalls /\ \E value \in Values : Element(1, value)
  \/ calls < MaxCalls /\ \E value \in Values : Id(1, value)
  \/ calls < MaxCalls /\ \E value \in Values : Class(1, value)
  \/ calls < MaxCalls /\ \E value \in Values : Attr(1, value)
  \/ calls < MaxCalls /\ \E value \in Values : PseudoClass(1, value)
  \/ calls < MaxCalls /\ \E value \in Values : PseudoElement(1, value)
  \/ calls < MaxCalls /\ \E value \in Values : FacadeElement(1, value)
  \/ calls < MaxCalls /\ \E value \in Values : FacadeId(1, value)
  \/ calls < MaxCalls /\ \E value \in Values : FacadeClass(1, value)
  \/ calls < MaxCalls /\ \E value \in Values : FacadeAttr(1, value)
  \/ calls < MaxCalls /\ \E value \in Values : FacadePseudoClass(1, value)
  \/ calls < MaxCalls /\ \E value \in Values : FacadePseudoElement(1, value)
  \/ Stringify(1)

Spec == Init /\ [][Next]_vars

\* two builders, their fragment methods, and combine in both directions
NextCombine ==
  \/ calls < MaxPairCalls /\ \E i \in Builders, value \in PairNames : Element(i, value)
  \/ calls < MaxPairCalls /\ \E i \in Builders, value \in PairNames : Id(i, value)
  \/ calls < MaxPairCalls /\ \E i \in Builders, value \in PairValues : Class(i, value)
  \/ calls < MaxPairCalls /\ \E i \in Builders, value \in PairValues : Attr(i, value)
  \/ calls < MaxPairCalls /\ \E i \in Builders, value \in PairValues : PseudoClass(i, value)
  \/ calls < MaxPairCalls /\ \E i \in Builders, value \in PairNames : PseudoElement(i, value)
  \/ calls < MaxPairCalls /\ \E i \in Builders, value \in PairNames : FacadeElement(i, value)
  \/ calls < MaxPairCalls /\ \E i \in Builders, value \in PairNames : FacadeId(i, value)
  \/ calls < MaxPairCalls /\ \E i \in Builders, value \in PairValues : FacadeClass(i, value)
  \/ calls < MaxPairCalls /\ \E i \in Builders, value \in PairValues : FacadeAttr(i, value)
  \/ calls < MaxPairCalls /\ \E i \in Builders, value \in PairValues : FacadePseudoClass(i, value)
  \/ calls < MaxPairCalls /\ \E i \in Builders, value \in PairNames : FacadePseudoElement(i, value)
  \/ combines < MaxCombines
       /\ \E i, j \in Builders, comb \in Combinators : i # j /\ Combine(i, j, comb)
  \/ combines < MaxCombines
       /\ \E i, j \in Builders, comb \in Combinators : i # j /\ FacadeCombine(i, comb, j)
  \/ \E i \in Builders : Stringify(i)

SpecCombine == Init /\ [][NextCombine]_vars

\* ================================================================= claims
\* the characters a rendered selector is made of
Chars == {"a", "b", "c", " ", "#", ".", "[", "]", ":", "+"}

IsFragmentCall == last.op \in Kinds
Repeatable == {"class", "attr", "pseudoClass"}
Unique == {"element", "id", "pseudoElement"}

Front(h) == SubSeq(h, 1, Len(h) - 1)

\* the fragment calls accepted on the receiver before the last call
PriorHist ==
  IF last.b = 0 THEN <<>>
  ELSE IF IsFragmentCall /\ last.err = NoError THEN Front(hist[last.b])
  ELSE hist[last.b]

\* the highest rank among the calls of h, -1 when there is none
MaxRank(h) ==
  IF h = <<>> THEN -1
  ELSE CHOOSE r \in 0..5 :
         /\ \E k \in DOMAIN h : Rank(h[k].kind) = r
         /\ \A k \in DOMAIN h : Rank(h[k].kind) <= r

Occurs(h, kind) == \E k \in DOMAIN h : h[k].kind = kind

\* C1: a fragment call whose rank is lower than the highest rank already
\* accepted on the builder is rejected with the order error.  (A repeated
\* element, id or pseudoElement is the case of C2 and is left to it.)
C1_LowerRankRejected ==
  (IsFragmentCall /\ Rank(last.op) < MaxRank(PriorHist)
     /\ ~(last.op \in Unique /\ Occurs(PriorHist, last.op)))
    => last.err = OrderMessage

\* C2: a second call to element, to id or to pseudoElement on one builder is
\* rejected with the duplicate error, whatever the argument values.
C2_SecondCallDuplicate ==
  (IsFragmentCall /\ last.op \in Unique /\ Occurs(PriorHist, last.op))
    => last.err = DuplicateMessage

\* a sequence of calls with non-decreasing ranks in which element, id and
\* pseudoElement occur at most once
ValidOrder(h) ==
  /\ \A k \in 1..(Len(h) - 1) : Rank(h[k].kind) <= Rank(h[k + 1].kind)
  /\ \A k, m \in DOMAIN h : (k # m /\ h[k].kind = h[m].kind) => h[k].kind \in Repeatable

\* C3: a fragment call that extends a sequence of non-decreasing ranks, with
\* element, id and pseudoElement at most once, is accepted, and stringify
\* returns a string without raising.
C3_ValidSequenceAccepted ==
  /\ (IsFragmentCall
        /\ ValidOrder(PriorHist \o <<[kind |-> last.op, value |-> last.value]>>))
       => (last.err = NoError /\ hist[last.b] # PriorHist)
  /\ last.op = "stringify" => (last.err = NoError /\ last.out \in Seq(Chars))

C3_Witness ==
  /\ IsFragmentCall /\ last.err = NoError
  /\ Len(hist[last.b]) >= 3 /\ ValidOrder(hist[last.b])
  /\ hist[last.b][2].kind = hist[last.b][3].kind

\* the values of one kind in h, in call order, each between pre and post
RECURSIVE Part(_, _, _, _)
Part(h, kind, pre, post) ==
  IF h = <<>> THEN <<>>
  ELSE (IF Head(h).kind = kind THEN pre \o Head(h).value \o post ELSE <<>>)
         \o Part(Tail(h), kind, pre, post)

\* the value of the one accepted call of a kind, after pre; empty if none
One(h, kind, pre) ==
  IF ~Occurs(h, kind) THEN <<>>
  ELSE LET k == CHOOSE k \in DOMAIN h :
                  h[k].kind = kind /\ \A m \in DOMAIN h : h[m].kind = kind => m <= k
       IN pre \o h[k].value

\* element, #id, .class, [attr], :pseudoClass, ::pseudoElement in this order
Canon(h) ==
  One(h, "element", <<>>) \o One(h, "id", <<"#">>)
    \o Part(h, "class", <<".">>, <<>>) \o Part(h, "attr", <<"[">>, <<"]">>)
    \o Part(h, "pseudoClass", <<":">>, <<>>) \o One(h, "pseudoElement", <<":", ":">>)

\* C4 as stated: stringify of a builder that was never combined returns
\* exactly the fragments in the fixed order of kinds.
C4_ExactConcatenation ==
  (last.op = "stringify" /\ combinedWith[last.b] = 0) => last.out = Canon(hist[last.b])

\* C4 amended: stringify of a builder that was never combined returns the
\* fragments in the fixed order of kinds, with the whitespace at the two ends
\* of the whole removed.
C4_TrimmedConcatenation ==
  (last.op = "stringify" /\ combinedWith[last.b] = 0)
    => last.out = trim(Canon(hist[last.b]))

C4_Witness ==
  /\ last.op = "stringify" /\ combinedWith[last.b] = 0
  /\ \E k \in 1..(Len(hist[last.b]) - 1) :
       Rank(hist[last.b][k].kind) > Rank(hist[last.b][k + 1].kind)
  /\ last.out # Canon(hist[last.b])

\* C5: class, attr and pseudoClass called again right after an accepted call
\* of the same kind are accepted, the builder keeps the values of each kind in
\* call order, and stringify renders them so.
C5_RepeatableInCallOrder ==
  /\ (IsFragmentCall /\ last.op \in Repeatable /\ PriorHist # <<>>
        /\ PriorHist[Len(PriorHist)].kind = last.op) => last.err = NoError
  /\ \A i \in Builders :
       /\ builders[i].classes = Part(hist[i], "class", <<".">>, <<>>)
       /\ builders[i].attrs = Part(hist[i], "attr", <<"[">>, <<"]">>)
       /\ builders[i].pseudoClasses = Part(hist[i], "pseudoClass", <<":">>, <<>>)
  /\ (last.op = "stringify" /\ combinedWith[last.b] = 0)
       => last.out = trim(builders[last.b].elementValue \o builders[last.b].idValue
                            \o Part(hist[last.b], "class", <<".">>, <<>>)
                            \o Part(hist[last.b], "attr", <<"[">>, <<"]">>)
                            \o Part(hist[last.b], "pseudoClass", <<":">>, <<>>)
                            \o builders[last.b].pseudoElementValue)

C5_Witness ==
  /\ last.op = "stringify"
  /\ Len(hist[last.b]) >= 3
  /\ \A k \in DOMAIN hist[last.b] : hist[last.b][k].kind = "class"
  /\ hist[last.b][1].value # hist[last.b][2].value
  /\ hist[last.b][2].value # hist[last.b][3].value

\* ---------------------------------------------------- claims about combine
IsCombineCall == last.op = "combine"

\* the method named kind applied to the fields b
Apply(kind, b, value) ==
  CASE kind = "element" -> element(b, value)
    [] kind = "id" -> id(b, value)
    [] kind = "class" -> class(b, value)
    [] kind = "attr" -> attr(b, value)
    [] kind = "pseudoClass" -> pseudoClass(b, value)
    [] kind = "pseudoElement" -> pseudoElement(b, value)

\* whether the fields b accept a call of a kind (no method looks at its
\* argument to decide whether it throws)
Accepts(b, kind) == Apply(kind, b, <<"a">>).err = NoError

\* C6 as stated: with F the uncombined rendering of the left builder, S the
\* non-empty rendering of the right one and op a non-empty combinator, the
\* combined builder renders as F, space, op, space, S, trimmed; and the
\* three-level example renders as documented.
C6_RenderedLeftText ==
  /\ (IsCombineCall /\ last.value # <<>> /\ stringify(builders[last.other]).out # <<>>)
       => stringify(builders[last.b]).out
            = trim(trim(Canon(hist[last.b])) \o <<" ">> \o last.value \o <<" ">>
                     \o stringify(builders[last.other]).out)
  /\ stringify(Example).out = Example_text

\* C6 amended: the same with F the concatenation of the left builder's
\* fragments as they are, before any trimming.
C6_UntrimmedLeftText ==
  /\ (IsCombineCall /\ last.value # <<>> /\ stringify(builders[last.other]).out # <<>>)
       => stringify(builders[last.b]).out
            = trim(Canon(hist[last.b]) \o <<" ">> \o last.value \o <<" ">>
                     \o stringify(builders[last.other]).out)
  /\ stringify(Example).out = Example_text

\* the right operand is itself a combination
C6_Witness ==
  /\ IsCombineCall /\ last.value # <<>>
  /\ hist[last.b] # <<>>
  /\ hist[last.other] # <<>>
  /\ builders[last.other].combinator # <<>>
  /\ builders[last.other].supSelector # <<>>
  /\ stringify(builders[last.b]).out
       # trim(trim(Canon(hist[last.b])) \o <<" ">> \o last.value \o <<" ">>
                \o stringify(builders[last.other]).out)

\* C7: once i.combine(j, op) was called, a fragment or combine call made on
\* j leaves the rendering of i unchanged.
C7_SnapshotKept ==
  [][ \A i \in Builders :
        (combinedWith[i] # 0 /\ combinedWith[i] # i /\ last'.b = combinedWith[i]
           /\ last'.op \in Kinds \cup {"combine"})
          => /\ stringify(builders'[i]).out = stringify(builders[i]).out
             /\ builders'[i].supSelector = builders[i].supSelector ]_vars

\* the right operand was changed after the combine: the text kept by the
\* left one is no longer the right one's rendering
C7_Witness ==
  \E i \in Builders :
    /\ combinedWith[i] # 0 /\ combinedWith[i] # i
    /\ last.b = combinedWith[i] /\ IsFragmentCall /\ last.err = NoError
    /\ builders[i].combinator # <<>>
    /\ builders[i].supSelector # <<>>
    /\ builders[i].supSelector # stringify(builders[combinedWith[i]]).out

\* C8: stringify changes no field of the builder: a call right after another
\* returns the same string, and the fragment calls accepted afterwards are
\* those accepted before.
C8_StringifyPure ==
  [][ last'.op = "stringify"
        => /\ builders' = builders
           /\ last'.err = NoError
           /\ last'.out = stringify(builders[last'.b]).out
           /\ (last.op = "stringify" /\ last.b = last'.b) => last'.out = last.out
           /\ \A kind \in Kinds :
                Accepts(builders'[last'.b], kind) = Accepts(builders[last'.b], kind) ]_vars

C8_Witness ==
  /\ last.op = "stringify"
  /\ hist[last.b] # <<>>
  /\ builders[last.b].combinator # <<>>
  /\ builders[last.b].supSelector # <<>>
  /\ last.out = stringify(builders[last.b]).out

\* C9: a facade fragment function leaves the builder it returns as the
\* method of the same name leaves a new CssSelector; the facade's
\* combine(left, op, right) does to left what left.combine(right, op) does,
\* leaves right alone and returns left.
C9_FacadeEquivalent ==
  [][ /\ (last'.facade /\ last'.op \in Kinds)
           => /\ builders'[last'.b] = Apply(last'.op, CssSelector, last'.value).b
              /\ last'.err = Apply(last'.op, CssSelector, last'.value).err
              /\ last'.err = NoError => last'.ret = last'.b
      /\ (last'.facade /\ last'.op = "combine")
           => /\ builders'[last'.b]
                   = combine(builders[last'.b], builders[last'.other], last'.value).b
              /\ builders'[last'.b].combinator = last'.value
              /\ builders'[last'.b].supSelector = stringify(builders[last'.other]).out
              /\ builders'[last'.other] = builders[last'.other]
              /\ last'.ret = last'.b ]_vars

C9_Witness ==
  /\ last.facade /\ IsCombineCall
  /\ last.other # last.b
  /\ hist[last.b] # <<>>
  /\ builders[last.b].combinator # <<>>
  /\ builders[last.b].supSelector # <<>>
  /\ builders[last.b].supSelector # stringify(builders[last.b]).out
  /\ builders[last.other] # builders[last.b]

\* C10: a call on one builder, accepted or rejected, changes no field of any
\* other builder (its rendering and the calls it accepts are read from its
\* fields alone); combine changes only the left operand, and of it only the
\* combinator and the right-hand text, which is the right operand's rendering.
C10_NoSharedState ==
  [][ /\ \A k \in Builders : k # last'.b => builders'[k] = builders[k]
      /\ last'.op = "combine"
           => /\ [builders'[last'.b] EXCEPT !.combinator = <<>>, !.supSelector = <<>>]
                   = [builders[last'.b] EXCEPT !.combinator = <<>>, !.supSelector = <<>>]
              /\ builders'[last'.b].supSelector = stringify(builders[last'.other]).out ]_vars

\* a rejected call on one builder while the other holds fragments and a
\* combination
C10_Witness ==
  /\ IsFragmentCall /\ last.err # NoError
  /\ \E k \in Builders :
       /\ k # last.b
       /\ builders[k].supSelector # <<>>
       /\ builders[k] # builders[last.b]

\* C11: every accepted fragment call and every combine call returns the
\* builder it was called on, and that builder holds the fragments of all the
\* calls accepted on it, the last one included.
C11_ReturnsThis ==
  /\ (IsFragmentCall /\ last.err = NoError)
       => /\ last.ret = last.b
          /\ hist[last.ret] # <<>>
          /\ hist[last.ret][Len(hist[last.ret])] = [kind |-> last.op, value |-> last.value]
          /\ builders[last.ret].elementValue \o builders[last.ret].idValue
               \o builders[last.ret].classes \o builders[last.ret].attrs
               \o builders[last.ret].pseudoClasses \o builders[last.ret].pseudoElementValue
               = Canon(hist[last.ret])
  /\ IsCombineCall
       => /\ last.err = NoError
          /\ last.ret = last.b
          /\ builders[last.ret].combinator = last.value

\* a chain: fragment, combine, fragment on the same builder
C11_Witness ==
  /\ IsFragmentCall /\ last.err = NoError /\ last.ret = last.b
  /\ Len(hist[last.b]) >= 2
  /\ combinedWith[last.b] # 0
  /\ builders[last.b].supSelector # <<>>

\* t is the end of s
IsSuffix(t, s) == Len(t) <= Len(s) /\ SubSeq(s, Len(s) - Len(t) + 1, Len(s)) = t

\* no character of s but whitespace
IsBlank(s) == \A k \in DOMAIN s : IsWhitespace(s[k])

\* the rendering of the right operand of the last combine call (the call
\* leaves the right operand as it was)
RightText == stringify(builders[last.other]).out

\* C12 as stated: for every combinator string, the empty one included, and
\* every right operand, the rendering of the combined builder has the
\* combinator followed by the right operand's rendering after the left
\* operand's fragments.
C12_AnyCombinatorRendered ==
  IsCombineCall
    => /\ last.err = NoError
       /\ IsSuffix(last.value \o <<" ">> \o RightText, stringify(builders[last.b]).out)

\* C12 amended: every combinator string is accepted and stored as it is;
\* when it and the right operand's rendering are both non-empty, the
\* rendering ends with the combinator, a space and the right operand's
\* rendering (the combinator's leading whitespace is lost when the left
\* operand has no fragment text before it); when either is empty, the
\* rendering is that of the left operand's fragments alone.
C12_NonEmptyCombinatorRendered ==
  IsCombineCall
    => /\ last.err = NoError
       /\ builders[last.b].combinator = last.value
       /\ builders[last.b].supSelector = RightText
       /\ (last.value # <<>> /\ RightText # <<>> /\ ~IsBlank(Canon(hist[last.b])))
            => IsSuffix(<<" ">> \o last.value \o <<" ">> \o RightText,
                        stringify(builders[last.b]).out)
       /\ (last.value # <<>> /\ RightText # <<>> /\ IsBlank(Canon(hist[last.b])))
            => stringify(builders[last.b]).out
                 = trimStart(last.value \o <<" ">> \o RightText)
       /\ (last.value = <<>> \/ RightText = <<>>)
            => stringify(builders[last.b]).out = trim(Canon(hist[last.b]))

\* the whitespace combinator between two builders that hold fragments
C12_Witness ==
  /\ IsCombineCall
  /\ last.value = <<" ">>
  /\ RightText # <<>>
  /\ ~IsBlank(Canon(hist[last.b]))
  /\ builders[last.b].combinator = <<" ">>

\* the two ways a fragment call is rejected: its kind is element, id or
\* pseudoElement and was accepted before on the builder, or not
IsRejection == IsFragmentCall /\ last.err # NoError
IsDuplicateRejection == IsRejection /\ last.op \in Unique /\ Occurs(PriorHist, last.op)
IsOrderRejection == IsRejection /\ ~(last.op \in Unique /\ Occurs(PriorHist, last.op))

\* the message the specification gives for a duplicate
SpecDuplicateMessage ==
  "Element, id and pseudo-element should not occur more than one time inside the selector"

\* C13 as stated: a duplicate rejection carries the message with 'more than
\* one time', an order rejection the order message, and the two differ.
C13_MessagesAsSpecified ==
  /\ IsDuplicateRejection => last.err = SpecDuplicateMessage
  /\ IsOrderRejection => last.err = OrderMessage
  /\ SpecDuplicateMessage # OrderMessage

\* C13 amended: a duplicate rejection carries the message the code throws,
\* which reads 'more then one time', an order rejection the order message,
\* and the two differ.
C13_MessagesAsThrown ==
  /\ IsDuplicateRejection => last.err = DuplicateMessage
  /\ IsOrderRejection => last.err = OrderMessage
  /\ DuplicateMessage # OrderMessage
  /\ IsRejection => last.err \in {DuplicateMessage, OrderMessage}

\* a repeated pseudoElement
C13_Witness ==
  /\ IsDuplicateRejection
  /\ last.op = "pseudoElement"
  /\ last.err = DuplicateMessage

\* the last call combined two builders that render non-empty with ' '
IsDescendantCombine ==
  /\ IsCombineCall /\ last.value = <<" ">>
  /\ ~IsBlank(Canon(hist[last.b]))
  /\ RightText # <<>>

\* C14 as stated: two non-empty selectors combined with ' ' render as the
\* left text, exactly two spaces, the right text.
C14_TwoSpaces ==
  IsDescendantCombine
    => stringify(builders[last.b]).out
         = trim(Canon(hist[last.b])) \o <<" ", " ">> \o RightText

\* C14 amended: they render as the left operand's fragments (leading
\* whitespace removed, trailing whitespace kept), exactly three spaces, the
\* right text.
C14_ThreeSpaces ==
  IsDescendantCombine
    => stringify(builders[last.b]).out
         = trimStart(Canon(hist[last.b])) \o <<" ", " ", " ">> \o RightText

\* the left operand's text ends without whitespace, so that the three spaces
\* are all there is between the two texts
C14_Witness ==
  /\ IsDescendantCombine
  /\ Canon(hist[last.b]) = trim(Canon(hist[last.b]))
  /\ stringify(builders[last.b]).out
       = Canon(hist[last.b]) \o <<" ", " ", " ">> \o RightText

\* C15: in every reachable state the stored combinator and the stored
\* right-hand text of a builder are both empty or both non-empty.
C15_BothSetOrBothUnset ==
  \A i \in Builders :
    (builders[i].combinator = <<>>) <=> (builders[i].supSelector = <<>>)

\* C16: a combine call on a builder that was combined before does not raise
\* and replaces the combinator and the right-hand text: every field of the
\* builder is left as the same call leaves a builder with the same fragments
\* that was never combined, so nothing of the earlier combine is rendered.
C16_SecondCombineOverwrites ==
  [][ (last'.op = "combine" /\ combinedWith[last'.b] # 0)
        => LET never == [builders[last'.b] EXCEPT
                           !.combinator = <<>>, !.supSelector = <<>>]
           IN  /\ last'.err = NoError
               /\ builders'[last'.b].combinator = last'.value
               /\ builders'[last'.b].supSelector = stringify(builders[last'.other]).out
               /\ builders'[last'.b] = combine(never, builders[last'.other], last'.value).b
      ]_vars

\* both combine calls of the run were made on the same builder, the second
\* one with a combinator and a right operand that render
C16_Witness ==
  /\ IsCombineCall /\ combines = 2
  /\ \A k \in Builders : k # last.b => combinedWith[k] = 0
  /\ hist[last.b] # <<>>
  /\ last.value # <<>> /\ RightText # <<>>
  /\ IsSuffix(<<" ">> \o last.value \o <<" ">> \o RightText,
              stringify(builders[last.b]).out)

\* C17: a rejected fragment call leaves every field of the builder as it
\* was, so its rendering and the calls it accepts afterwards are unchanged.
C17_RejectedCallChangesNothing ==
  [][ (last'.op \in Kinds /\ last'.err # NoError)
        => /\ builders' = builders
           /\ hist' = hist
           /\ stringify(builders'[last'.b]).out = stringify(builders[last'.b]).out
           /\ \A kind \in Kinds :
                Accepts(builders'[last'.b], kind) = Accepts(builders[last'.b], kind)
      ]_vars

\* an order rejection on a builder that holds fragments
C17_Witness ==
  /\ IsRejection /\ last.err = OrderMessage
  /\ Len(hist[last.b]) >= 2
  /\ builders[last.b].order[Rank(last.op)] = 0

\* the rank of the first fragment accepted on builder i, -1 when none
FirstRank(h) == IF h = <<>> THEN -1 ELSE Rank(h[1].kind)

\* C18: the lowest rank recorded on a builder is the rank of the first
\* fragment accepted on it, no accepted fragment has a lower rank, and a
\* fragment call is rejected with the order error exactly when its rank is
\* below it.
C18_FirstRankIsLowerBound ==
  /\ \A i \in Builders :
       /\ indexOf(builders[i].order, 1) = FirstRank(hist[i])
       /\ \A k \in DOMAIN hist[i] :
            /\ Rank(hist[i][k].kind) >= FirstRank(hist[i])
            /\ builders[i].order[Rank(hist[i][k].kind)] = 1
  /\ IsFragmentCall
       => ((last.err = OrderMessage)
             <=> (PriorHist # <<>> /\ Rank(last.op) < FirstRank(PriorHist)))

\* a call accepted although a higher rank was accepted before it
C18_Witness ==
  /\ IsFragmentCall /\ last.err = NoError
  /\ Rank(last.op) < MaxRank(PriorHist)
  /\ Rank(last.op) > FirstRank(PriorHist)
  /\ FirstRank(PriorHist) >= 0

====
